---- MODULE Spec2Model ----
(***************************************************************************)
(* A model of the Instana MCP server: the command-line entry point         *)
(* (mcp_instana/main.py), the request pipeline configured by server.run    *)
(* (mcp_instana/server.py), the tool adapter                               *)
(* list_top_applications_by_performance (tools/trending/top_performance.py)*)
(* and the demo tools (tools/log/demo_tool.py).                            *)
(*                                                                         *)
(* Python values: None is the empty set and a present value x is {x}; a    *)
(* string is a sequence of symbols (a word, a digit, a comma), so that     *)
(* str.split and int() are computed rather than assumed.                   *)
(***************************************************************************)
EXTENDS Integers, Sequences, FiniteSets, TLC

VARIABLES
    \* ---- main(): the process
    argv,                    \* sys.argv[1:]
    env,                     \* os.environ: PORT, INSTANA_API_TOKEN, INSTANA_BASE_URL
    main_pc,                 \* position in main()
    args,                    \* the namespace parse_args returned
    default_port,            \* the --port default, int(os.getenv("PORT", "8080"))
    exit_status,             \* the status the process exited with, None while it runs
    help_printed,            \* the help text was logged
    server_started,          \* server.run was reached
    server_transport,        \* the transport server.run chose
    global_mcp_mode,         \* settings.global_mcp_mode
    global_tool_categories,  \* settings.global_tool_categories
    \* ---- a client of the running server
    list_response,           \* the last list-tools response, None before the first
    call_result,             \* the last dispatch by name, None before the first
    \* ---- the request pipeline
    tokens,                  \* the rate limiter's bucket
    retry_total,             \* the calls the retry stage makes at most for one request
    req,                     \* the message in flight, None when idle
    pipe_pc,                 \* idle, chain, adapter_call, adapter_except, done
    depth,                   \* the stage control is in: an index of Middleware, or past it
    dir,                     \* down (towards the handler) or up (returning)
    inspected,               \* what LoggingMiddleware bound before call_next
    call_next_count,         \* LoggingMiddleware's calls of call_next for this message
    outcome,                 \* the result or exception travelling up, None going down
    downstream_outcome,      \* what call_next gave LoggingMiddleware
    final_outcome,           \* what on_message gave its caller
    stages,                  \* the stages entered for this message, in order
    tokens_used,             \* rate-limit tokens this message consumed
    attempts,                \* the retry stage's calls of call_next for this message
    handler_invocations,     \* tool handler invocations for this message
    api_calls,               \* external API calls of the current adapter invocation
    api_now,                 \* the clock as the current adapter invocation read it
    api_request,             \* the request object of the current adapter invocation
    api_error,               \* the exception the external API raised, None if none
    notified,                \* ctx.error was sent
    \* ---- an observer of the rate limiter
    win_open,                \* the observed interval has begun
    win_elapsed,             \* its length so far, in ticks
    win_admitted,            \* requests admitted in it
    win_rejected,            \* requests rejected in it
    last_arrival             \* what became of the last request that arrived

mainVars == <<argv, env, main_pc, args, default_port, exit_status, help_printed,
              server_started, server_transport, global_mcp_mode>>

listVars == <<list_response, call_result>>

pipeVars == <<retry_total, req, pipe_pc, depth, dir, inspected, call_next_count, outcome,
              downstream_outcome, final_outcome, stages, tokens_used, attempts,
              handler_invocations, api_calls, api_now, api_request, api_error, notified>>

rateVars == <<win_open, win_elapsed, win_admitted, win_rejected, last_arrival>>

vars == <<mainVars, global_tool_categories, listVars, tokens, pipeVars, rateVars>>

----------------------------------------------------------------------------
(* Python values *)

None == {}
Some(x) == {x}
Get(o) == CHOOSE x \in o : TRUE

\* A one-word string.
Str(w) == <<w>>

\* All sequences over S of length at most n.
SeqsUpTo(S, n) == UNION {[1..k -> S] : k \in 0..n}

\* The variables of a request, between requests.
NoRequest ==
    /\ req = None
    /\ pipe_pc = "idle"
    /\ depth = 0
    /\ dir = "down"
    /\ inspected = None
    /\ call_next_count = 0
    /\ outcome = None
    /\ downstream_outcome = None
    /\ final_outcome = None
    /\ stages = <<>>
    /\ tokens_used = 0
    /\ attempts = 0
    /\ handler_invocations = 0
    /\ api_calls = 0
    /\ api_now = None
    /\ api_request = None
    /\ api_error = None
    /\ notified = FALSE

\* No interval is observed.
NoWindow ==
    /\ win_open = FALSE
    /\ win_elapsed = 0
    /\ win_admitted = 0
    /\ win_rejected = 0
    /\ last_arrival = [result |-> "none", before |-> 0]

----------------------------------------------------------------------------
(* Bounds *)

\* Longest command line, in arguments.
MaxArgs == 3

----------------------------------------------------------------------------
(* main.py *)

Digits == {"0", "1", "2", "3", "4", "5", "6", "7", "8", "9"}

DigitValue(d) ==
    CASE d = "0" -> 0 [] d = "1" -> 1 [] d = "2" -> 2 [] d = "3" -> 3 [] d = "4" -> 4
      [] d = "5" -> 5 [] d = "6" -> 6 [] d = "7" -> 7 [] d = "8" -> 8 [] d = "9" -> 9

\* int(s) succeeds.
IsInt(s) == Len(s) > 0 /\ \A i \in 1..Len(s) : s[i] \in Digits

RECURSIVE IntOf(_)
IntOf(s) == IF Len(s) = 0 THEN 0
            ELSE 10 * IntOf(SubSeq(s, 1, Len(s) - 1)) + DigitValue(s[Len(s)])

\* os.getenv(name, default)
GetEnv(e, name, default) == IF e[name] = None THEN default ELSE Get(e[name])

\* os.getenv(name) or ""
GetEnvOrEmpty(e, name) == IF e[name] = None THEN <<>> ELSE Get(e[name])

validate_credentials_any(e) ==
    LET token == GetEnvOrEmpty(e, "INSTANA_API_TOKEN")
        base_url == GetEnvOrEmpty(e, "INSTANA_BASE_URL")
    IN  ~(token = <<>> /\ base_url = <<>>)

validate_credentials(e) ==
    LET token == GetEnvOrEmpty(e, "INSTANA_API_TOKEN")
        base_url == GetEnvOrEmpty(e, "INSTANA_BASE_URL")
    IN  ~(token = <<>> \/ base_url = <<>>)

help_args == {Str("-h"), Str("--h"), Str("--help"), Str("-help")}

\* The options the parser registers, each taking one value.
ValueOptions == {Str("--transport"), Str("--tools"), Str("--port")}
\* The store_true option.
FlagOptions == {Str("-h"), Str("--help")}

TransportChoices == {Str("streamable-http"), Str("stdio")}

\* argparse takes an argument that starts with "-" for an option, never for a value.
LooksLikeOption(a) == a \in ValueOptions \cup help_args

ArgError == [ok |-> FALSE]

EmptyNamespace(port) ==
    [help |-> FALSE, transport |-> None, tools |-> None, port |-> port]

RECURSIVE ParseFrom(_, _, _)
ParseFrom(av, i, ns) ==
    IF i > Len(av) THEN [ok |-> TRUE, ns |-> ns]
    ELSE LET a == av[i] IN
        IF a \in FlagOptions THEN ParseFrom(av, i + 1, [ns EXCEPT !.help = TRUE])
        ELSE IF a \in ValueOptions THEN
            IF i = Len(av) \/ LooksLikeOption(av[i + 1]) THEN ArgError
            ELSE LET v == av[i + 1] IN
                CASE a = Str("--transport") ->
                        IF v \in TransportChoices
                        THEN ParseFrom(av, i + 2, [ns EXCEPT !.transport = Some(v)])
                        ELSE ArgError
                  [] a = Str("--tools") ->
                        ParseFrom(av, i + 2, [ns EXCEPT !.tools = Some(v)])
                  [] a = Str("--port") ->
                        IF IsInt(v)
                        THEN ParseFrom(av, i + 2, [ns EXCEPT !.port = IntOf(v)])
                        ELSE ArgError
        ELSE ArgError

\* parser.parse_args(): the namespace, or argparse's error (exit status 2).
parse_args(av, port) == ParseFrom(av, 1, EmptyNamespace(port))

\* str.split(","): the pieces between the commas, always at least one.
RECURSIVE Split(_)
Split(s) ==
    IF \A i \in 1..Len(s) : s[i] # "," THEN <<s>>
    ELSE LET i == CHOOSE k \in 1..Len(s) :
                      s[k] = "," /\ \A j \in 1..(k - 1) : s[j] # ","
         IN  <<SubSeq(s, 1, i - 1)>> \o Split(SubSeq(s, i + 1, Len(s)))

\* args.tools.split(",") if args.tools else None
ToolCategories(tools) ==
    IF tools = None \/ tools = Some(<<>>) THEN None ELSE Some(Split(Get(tools)))

ArgTokens ==
    {Str("-h"), Str("--help"), Str("--transport"), Str("stdio"), Str("streamable-http"),
     Str("--tools"), <<"infra", ",", "app">>, Str("--port"), <<"9", "0">>}

EnvPorts == {None, Some(<<"9", "0">>), Some(Str("abc")), Some(<<>>)}
EnvSecrets == {None, Some(<<>>), Some(Str("secret"))}

Environments ==
    [PORT : EnvPorts, INSTANA_API_TOKEN : EnvSecrets, INSTANA_BASE_URL : EnvSecrets]

NoArgs == [ok |-> FALSE]

MainInit ==
    /\ argv \in SeqsUpTo(ArgTokens, MaxArgs)
    /\ env \in Environments
    /\ main_pc = "build_parser"
    /\ args = NoArgs
    /\ default_port = None
    /\ exit_status = None
    /\ help_printed = FALSE
    /\ server_started = FALSE
    /\ server_transport = None
    /\ global_mcp_mode = None
    /\ global_tool_categories = None
    /\ list_response = None
    /\ call_result = None
    /\ tokens = 0
    /\ retry_total = 0
    /\ NoRequest
    /\ NoWindow

Exit(status) ==
    /\ main_pc' = "exited"
    /\ exit_status' = Some(status)

\* Lines 37-65: the parser is built; the --port default converts PORT at once, and a
\* ValueError lands in main's except Exception (lines 133-135).
BuildParser ==
    /\ main_pc = "build_parser"
    /\ LET port == GetEnv(env, "PORT", <<"8", "0", "8", "0">>) IN
        IF IsInt(port)
        THEN /\ default_port' = Some(IntOf(port))
             /\ main_pc' = "check_help"
             /\ UNCHANGED exit_status
        ELSE /\ Exit(1)
             /\ UNCHANGED default_port
    /\ UNCHANGED <<argv, env, args, help_printed, server_started, server_transport,
                   global_mcp_mode, global_tool_categories, listVars, tokens,
                   pipeVars, rateVars>>

HasHelp(av) == \E i \in 1..Len(av) : av[i] \in help_args
OtherArgs(av) == SelectSeq(av, LAMBDA a : a \notin help_args)

\* Lines 66-104.
CheckHelp ==
    /\ main_pc = "check_help"
    /\ IF Len(argv) > 0 /\ HasHelp(argv)
       THEN IF OtherArgs(argv) # <<>>
            THEN /\ Exit(2)
                 /\ UNCHANGED help_printed
            ELSE /\ Exit(0)
                 /\ help_printed' = TRUE
       ELSE /\ main_pc' = "parse_args"
            /\ UNCHANGED <<exit_status, help_printed>>
    /\ UNCHANGED <<argv, env, args, default_port, server_started, server_transport,
                   global_mcp_mode, global_tool_categories, listVars, tokens,
                   pipeVars, rateVars>>

\* Line 106.
ParseArgs ==
    /\ main_pc = "parse_args"
    /\ LET r == parse_args(argv, Get(default_port)) IN
        IF r.ok
        THEN /\ args' = r
             /\ main_pc' = "configure"
             /\ UNCHANGED exit_status
        ELSE /\ Exit(2)
             /\ UNCHANGED args
    /\ UNCHANGED <<argv, env, default_port, help_printed, server_started,
                   server_transport, global_mcp_mode, global_tool_categories, listVars, tokens,
                   pipeVars, rateVars>>

\* Lines 108-121.
Configure ==
    /\ main_pc = "configure"
    /\ global_tool_categories' = ToolCategories(args.ns.tools)
    /\ global_mcp_mode' =
           IF args.ns.transport = None THEN Some(Str("stdio")) ELSE args.ns.transport
    /\ IF (args.ns.transport = Some(Str("stdio")) \/ args.ns.transport = None)
          /\ ~validate_credentials(env)
       THEN Exit(1)
       ELSE /\ main_pc' = "run"
            /\ UNCHANGED exit_status
    /\ UNCHANGED <<argv, env, args, default_port, help_printed, server_started,
                   server_transport, listVars, tokens, pipeVars, rateVars>>

\* Lines 123-125 and server.run, lines 143-148.
RunServer ==
    /\ main_pc = "run"
    /\ server_started' = TRUE
    /\ server_transport' =
           IF args.ns.transport = Some(Str("streamable-http"))
           THEN Some([transport |-> "http", port |-> args.ns.port])
           ELSE Some([transport |-> "stdio"])
    /\ main_pc' = "serving"
    /\ UNCHANGED <<argv, env, args, default_port, exit_status, help_printed,
                   global_mcp_mode, global_tool_categories, listVars, tokens,
                   pipeVars, rateVars>>

\* The server returns or is interrupted (status 0, lines 130-132) or raises
\* (status 1, lines 126-128).
ServerEnds ==
    /\ main_pc = "serving"
    /\ \E status \in {0, 1} : Exit(status)
    /\ UNCHANGED <<argv, env, args, default_port, help_printed, server_started,
                   server_transport, global_mcp_mode, global_tool_categories, listVars, tokens,
                   pipeVars, rateVars>>

MainNext == BuildParser \/ CheckHelp \/ ParseArgs \/ Configure \/ RunServer \/ ServerEnds

SpecMain == MainInit /\ [][MainNext]_vars

----------------------------------------------------------------------------
(* The tool registry and the tag filter *)

\* Longest --tools value, in symbols.
MaxToolsLen == 3

\* top_performance.py, lines 21-25.
TopPerformanceTool ==
    [name |-> "list_top_applications_by_performance",
     tags |-> {Str("trending"), Str("tool")}, enabled |-> TRUE]

\* demo_tool.py, lines 4-18.
DemoTools ==
    <<[name |-> "add_two_numbers", tags |-> {Str("infra")}, enabled |-> TRUE],
      [name |-> "subtract_two_numbers", tags |-> {Str("app")}, enabled |-> FALSE]>>

\* The registry after the tool modules were imported.
Registry == <<TopPerformanceTool>> \o DemoTools

\* What the registry lists: the enabled descriptors, in registration order.
ListEnabled(registry) == SelectSeq(registry, LAMBDA t : t.enabled)

Range(f) == {f[i] : i \in DOMAIN f}

\* The mutation of on_list_tools: a tool passes only if all its tags are configured.
on_list_tools_all_tags(categories, result) ==
    IF categories = None \/ Get(categories) = <<>> THEN result
    ELSE SelectSeq(result, LAMBDA tool : tool.tags \subseteq Range(Get(categories)))

\* TagBasedToolFilterMiddleware.on_list_tools, applied to call_next's result.
on_list_tools(categories, result) ==
    IF categories = None \/ Get(categories) = <<>> THEN result
    ELSE SelectSeq(result, LAMBDA tool : Range(Get(categories)) \cap tool.tags # {})

ToolNames == Range([i \in DOMAIN Registry |-> Registry[i].name]) \cup {"no_such_tool"}

\* The registry's dispatch: the enabled descriptor of that name, or NotFoundError.
Dispatch(registry, name) ==
    IF \E i \in DOMAIN registry : registry[i].name = name /\ registry[i].enabled
    THEN [kind |-> "handler", name |-> name]
    ELSE [kind |-> "NotFoundError", name |-> name]

CategorySymbols == {"infra", "app", "tool", ","}

\* The server is up, started by: --transport streamable-http [--tools <value>].
ListInit ==
    /\ \E tools \in {None} \cup {Some(s) : s \in SeqsUpTo(CategorySymbols, MaxToolsLen)} :
        /\ argv = (IF tools = None THEN <<>> ELSE <<Str("--tools"), Get(tools)>>)
                       \o <<Str("--transport"), Str("streamable-http")>>
        /\ args = [ok |-> TRUE,
                   ns |-> [EmptyNamespace(8080) EXCEPT
                              !.tools = tools, !.transport = Some(Str("streamable-http"))]]
        /\ global_tool_categories = ToolCategories(tools)
    /\ env = [PORT |-> None, INSTANA_API_TOKEN |-> None, INSTANA_BASE_URL |-> None]
    /\ main_pc = "serving"
    /\ default_port = Some(8080)
    /\ exit_status = None
    /\ help_printed = FALSE
    /\ server_started = TRUE
    /\ server_transport = Some([transport |-> "http", port |-> 8080])
    /\ global_mcp_mode = Some(Str("streamable-http"))
    /\ list_response = None
    /\ call_result = None
    /\ tokens = 0
    /\ retry_total = 0
    /\ NoRequest
    /\ NoWindow

\* A list-tools request: the registry's list, filtered on the way back.
ListTools ==
    /\ main_pc = "serving"
    /\ list_response' = Some(on_list_tools(global_tool_categories, ListEnabled(Registry)))
    /\ UNCHANGED <<mainVars, global_tool_categories, call_result, tokens, pipeVars,
                   rateVars>>

\* A tool call by name reaches the registry's dispatch.
CallTool ==
    /\ main_pc = "serving"
    /\ \E name \in ToolNames : call_result' = Some(Dispatch(Registry, name))
    /\ UNCHANGED <<mainVars, global_tool_categories, list_response, tokens, pipeVars,
                   rateVars>>

ListNext == ListTools \/ CallTool

SpecList == ListInit /\ [][ListNext]_vars

----------------------------------------------------------------------------
(* Properties of main() *)

CredentialsSet ==
    /\ env["INSTANA_API_TOKEN"] \notin {None, Some(<<>>)}
    /\ env["INSTANA_BASE_URL"] \notin {None, Some(<<>>)}

\* C5: once main() has selected stdio mode (--transport stdio or none given),
\* server.run is reached only if INSTANA_API_TOKEN and INSTANA_BASE_URL are both set
\* and non-empty, and otherwise the process has exited with status 1 without starting
\* the server; once it has selected streamable-http mode, server.run is reached
\* whatever the two variables hold.
C5_StdioNeedsCredentials ==
    /\ (global_mcp_mode = Some(Str("stdio")) /\ server_started) => CredentialsSet
    /\ (global_mcp_mode = Some(Str("stdio")) /\ ~CredentialsSet) =>
           (main_pc = "exited" /\ exit_status = Some(1) /\ ~server_started)
    /\ (global_mcp_mode = Some(Str("streamable-http")) /\ main_pc # "run") =>
           server_started

C5_Witness ==
    /\ global_mcp_mode = Some(Str("stdio"))
    /\ env["INSTANA_API_TOKEN"] = Some(Str("secret"))
    /\ env["INSTANA_BASE_URL"] = Some(<<>>)
    /\ exit_status = Some(1)
    /\ ~server_started

\* C6: a command line with a help flag ends with status 2 when another argument is
\* present and with status 0 and the help printed when none is, never starts the
\* server, and this whatever the environment holds.
C6_HelpDecidedByArguments ==
    (HasHelp(argv) /\ main_pc = "exited") =>
        /\ ~server_started
        /\ IF OtherArgs(argv) # <<>>
           THEN exit_status = Some(2)
           ELSE exit_status = Some(0) /\ help_printed

----------------------------------------------------------------------------
(* Properties of the tool list *)

Configured == IF global_tool_categories = None THEN {}
              ELSE Range(Get(global_tool_categories))

\* C7: the list-tools response is the enabled tools in registration order, all of
\* them when no category is configured and otherwise those with a tag among the
\* configured categories; subtract_two_numbers, which is disabled, is never listed
\* and a call to it fails with NotFoundError.
C7_ListIsEnabledAndTagged ==
    /\ list_response # None =>
          /\ Get(list_response) =
                SelectSeq(Registry,
                          LAMBDA t : /\ t.enabled
                                     /\ (Configured = {} \/ t.tags \cap Configured # {}))
          /\ \A i \in DOMAIN Get(list_response) :
                Get(list_response)[i].name # "subtract_two_numbers"
    /\ (call_result # None /\ Get(call_result).name = "subtract_two_numbers") =>
          Get(call_result).kind = "NotFoundError"

C7_Witness ==
    /\ global_tool_categories = Some(<<Str("tool"), Str("app")>>)
    /\ list_response # None
    /\ Len(Get(list_response)) = 1
    /\ call_result # None
    /\ Get(call_result).name = "subtract_two_numbers"

----------------------------------------------------------------------------
(* The rate limiter: a token bucket *)

\* Tokens the bucket regains in one tick of the model's clock: a tick is
\* TokensPerTick / max_requests_per_second seconds long.
TokensPerTick == 5

\* server.py, line 134: RateLimitingMiddleware(max_requests_per_second=100.0, ...)
max_requests_per_second == 100

\* The burst capacity the limiter takes when none is given.
burst_capacity_default == 2 * max_requests_per_second

\* server.py, line 134: RateLimitingMiddleware(..., burst_capacity=20)
burst_capacity == 20

Min(a, b) == IF a <= b THEN a ELSE b

\* One tick of refill at the sustained rate, never beyond the burst capacity.
Refill(t) == Min(burst_capacity, t + TokensPerTick)

\* A request takes one token if there is one and is rejected if there is none.
Consume(t) == IF t >= 1 THEN [allowed |-> TRUE, tokens |-> t - 1]
              ELSE [allowed |-> FALSE, tokens |-> t]

----------------------------------------------------------------------------
(* The request pipeline *)

\* Values of the clock and of the to_time_ms argument, in milliseconds.
MaxTime == 2
TimeValues == 1..MaxTime

\* server.py, line 140: RetryMiddleware(max_retries=3, ...)
max_retries == 3

\* server.py, line 140: retry_exceptions=(ConnectionError, TimeoutError)
retry_exceptions == {"ConnectionError", "TimeoutError"}

\* The order a message passes the stages in, were the retry stage added before the
\* rate limiter.
Middleware_retry_outside == <<"logging", "tagfilter", "retry", "ratelimit">>

\* run(), lines 120-141: the stages in the order add_middleware registers them.
Middleware == <<"logging", "tagfilter", "ratelimit", "retry">>

\* The classes `except Exception` catches, of those that occur here.
ExceptionClasses ==
    {"AttributeError", "UnboundLocalError", "ConnectionError", "TimeoutError",
     "ValueError", "ToolError", "NotFoundError", "RateLimitError"}

Ok(v) == [kind |-> "ok", op |-> "", text |-> "", value |-> v]
Raise(k) == [kind |-> k, op |-> "", text |-> "", value |-> <<>>]
ToolError(op, text) == [kind |-> "ToolError", op |-> op, text |-> text, value |-> <<>>]

Raised(o) == o.kind # "ok"

\* A local variable of a Python function: unbound until assigned.
Unbound == [bound |-> FALSE, value |-> None]
Bound(v) == [bound |-> TRUE, value |-> v]

\* What the external API operation can raise.
ApiErrors ==
    {[kind |-> "ConnectionError", text |-> "connection refused"],
     [kind |-> "TimeoutError", text |-> "timed out"],
     [kind |-> "ValueError", text |-> "bad response"]}

\* The shapes of context.message: None, an empty dict, a dict with a "method" key,
\* an object with name and arguments (a tool call's parameters), an object with
\* neither.
MessageShapes == {"none", "empty_dict", "dict", "params", "bare"}
\* How the arguments serialise: with json.dumps, only with str(), with neither.
DumpKinds == {"json", "str", "unserializable"}

AddOperands == {2, 3}

BaseRequest ==
    [kind |-> "other", name |-> "", ctx_method |-> None, ctx_message |-> "none",
     args_dump |-> "json", args_len |-> 50, to_time_ms |-> None, duration_ms |-> None, ctx |-> None,
     a |-> 0, b |-> 0]

\* A call of list_top_applications_by_performance: to_time_ms and duration_ms given
\* or left out, with a request context or without.
AdapterRequests ==
    {[BaseRequest EXCEPT !.kind = "call", !.name = "list_top_applications_by_performance",
                         !.ctx_method = Some("tools/call"), !.ctx_message = "params",
                         !.to_time_ms = t, !.duration_ms = d, !.ctx = c,
                         !.args_dump = k, !.args_len = n] :
        k \in DumpKinds, n \in {50, 250},
        t \in {None} \cup {Some(x) : x \in TimeValues},
        d \in {None, Some(60000)},
        c \in {None, Some("Context")}}

DemoRequests ==
    {[BaseRequest EXCEPT !.kind = "call", !.name = n,
                         !.ctx_method = Some("tools/call"), !.ctx_message = "params",
                         !.a = x, !.b = y] :
        n \in {"add_two_numbers", "subtract_two_numbers"}, x \in AddOperands, y \in AddOperands}

ListRequests ==
    {[BaseRequest EXCEPT !.kind = "list", !.ctx_method = Some("tools/list"),
                         !.ctx_message = "bare"]}

\* Any other message, of any shape, answered by a handler of the framework.
OtherRequests ==
    {[BaseRequest EXCEPT !.ctx_method = m, !.ctx_message = s, !.args_dump = k] :
        m \in {None, Some("tools/call"), Some("resources/list")},
        s \in MessageShapes, k \in DumpKinds}

Requests == AdapterRequests \cup DemoRequests \cup ListRequests \cup OtherRequests

\* Len("...(truncated)")
TruncatedSuffixLen == Len(<<".", ".", ".", "(", "t", "r", "u", "n", "c", "a", "t", "e", "d", ")">>)

\* Len("<unserializable>")
UnserializableLen == Len(<<"<", "u", "n", "s", "e", "r", "i", "a", "l", "i", "z", "a", "b", "l", "e", ">">>)

\* server.py, line 26: the default of max_len.
safe_dump_max_len == 100

\* server.py, lines 26-36: the text comes from json.dumps, else from str(), else it
\* is the marker; past max_len characters it is cut and the suffix added. kind says
\* which conversions work on the object, n how long its text is. Never raises.
safe_dump(kind, n, max_len) ==
    LET via == CASE kind = "json" -> "json.dumps"
                 [] kind = "str" -> "str"
                 [] OTHER -> "<unserializable>"
        length == IF via = "<unserializable>" THEN UnserializableLen ELSE n
    IN  [via |-> via,
         len |-> IF length > max_len THEN max_len + TruncatedSuffixLen ELSE length]

\* LoggingMiddleware.on_message, lines 44-70: the body of the first try block.
\* raised is the exception that ends it early, method and tool_name the locals as
\* it leaves them.
InspectInbound(r) ==
    IF r.ctx_method = None /\ r.ctx_message \in {"params", "bare"}
    THEN \* (context.message or {}).get: the object has no get
         [raised |-> Some("AttributeError"), method |-> Unbound, tool_name |-> Unbound,
          dumped |-> None]
    ELSE LET method == IF r.ctx_method # None THEN r.ctx_method
                       ELSE IF r.ctx_message = "dict" THEN Some("tools/call")
                       ELSE None
         IN  IF method = Some("tools/call")
             THEN IF r.ctx_message = "params"
                  THEN [raised |-> None, method |-> Bound(method),
                        tool_name |-> Bound(Some(r.name)),
                        dumped |-> IF r.name # ""
                                   THEN Some(safe_dump(r.args_dump, r.args_len,
                                                   safe_dump_max_len))
                                   ELSE None]
                  ELSE \* msg.name: a dict, or an object without the attribute
                       [raised |-> Some("AttributeError"), method |-> Bound(method),
                        tool_name |-> Bound(None), dumped |-> None]
             ELSE [raised |-> None, method |-> Bound(method), tool_name |-> Bound(None),
                   dumped |-> None]

\* The mutation of LogCompletion: the block without its except clause.
LogCompletion_unguarded(insp) ==
    IF ~insp.tool_name.bound THEN Some("UnboundLocalError") ELSE None

\* Lines 85-92: the second try block; the exception that leaves it, None if none.
LogCompletion(insp) ==
    LET raised == IF ~insp.tool_name.bound THEN Some("UnboundLocalError") ELSE None
    IN  IF raised # None /\ Get(raised) \in ExceptionClasses THEN None ELSE raised

\* Lines 78-94: what on_message gives its caller once call_next has ended.
on_message_result(insp, downstream) ==
    IF Raised(downstream) THEN downstream
    ELSE IF LogCompletion(insp) # None THEN Raise(Get(LogCompletion(insp)))
    ELSE downstream

\* demo_tool.py, lines 9-11 and 19-21.
add(a, b) == a + b
subtract(a, b) == a - b

\* top_performance.py, line 29: the default of duration_ms.
duration_ms_default == 60 * 60 * 1000

PipeInit ==
    /\ argv = <<Str("--transport"), Str("streamable-http")>>
    /\ args = [ok |-> TRUE,
               ns |-> [EmptyNamespace(8080) EXCEPT !.transport = Some(Str("streamable-http"))]]
    /\ env = [PORT |-> None, INSTANA_API_TOKEN |-> None, INSTANA_BASE_URL |-> None]
    /\ main_pc = "serving"
    /\ default_port = Some(8080)
    /\ exit_status = None
    /\ help_printed = FALSE
    /\ server_started = TRUE
    /\ server_transport = Some([transport |-> "http", port |-> 8080])
    /\ global_mcp_mode = Some(Str("streamable-http"))
    /\ global_tool_categories \in {None, ToolCategories(Some(Str("infra")))}
    /\ list_response = None
    /\ call_result = None
    /\ tokens = burst_capacity
    \* max_retries is the framework's to read: the first call counted in it, or not.
    /\ retry_total \in {max_retries, max_retries + 1}
    /\ NoRequest
    /\ NoWindow

outerVars == <<mainVars, global_tool_categories, listVars, rateVars, retry_total>>
adapterVars == <<api_calls, api_now, api_request, api_error, notified>>

InStage(name, d) ==
    /\ pipe_pc = "chain"
    /\ dir = d
    /\ depth \in DOMAIN Middleware
    /\ Middleware[depth] = name

\* A message arrives.
Receive ==
    /\ pipe_pc = "idle"
    /\ \E r \in Requests : req' = Some(r)
    /\ pipe_pc' = "chain"
    /\ depth' = 1
    /\ dir' = "down"
    /\ UNCHANGED <<outerVars, tokens, inspected, call_next_count, outcome,
                   downstream_outcome, final_outcome, stages, tokens_used, attempts,
                   handler_invocations, adapterVars>>

\* LoggingMiddleware.on_message, lines 43-80: the inspection, whose exceptions
\* `except Exception` keeps, then call_next.
LoggingPre ==
    /\ InStage("logging", "down")
    /\ LET insp == InspectInbound(Get(req)) IN
        /\ inspected' = Some(insp)
        /\ IF insp.raised # None /\ Get(insp.raised) \notin ExceptionClasses
           THEN /\ final_outcome' = Some(Raise(Get(insp.raised)))
                /\ pipe_pc' = "done"
                /\ UNCHANGED <<depth, call_next_count>>
           ELSE /\ call_next_count' = call_next_count + 1
                /\ depth' = depth + 1
                /\ UNCHANGED <<final_outcome, pipe_pc>>
    /\ stages' = Append(stages, "logging")
    /\ UNCHANGED <<outerVars, tokens, req, dir, outcome, downstream_outcome, tokens_used,
                   attempts, handler_invocations, adapterVars>>

\* TagBasedToolFilterMiddleware.on_list_tools, line 104: call_next first.
TagFilterPre ==
    /\ InStage("tagfilter", "down")
    /\ depth' = depth + 1
    /\ stages' = Append(stages, "tagfilter")
    /\ UNCHANGED <<outerVars, tokens, req, pipe_pc, dir, inspected, call_next_count, outcome,
                   downstream_outcome, final_outcome, tokens_used, attempts,
                   handler_invocations, adapterVars>>

\* The rate-limit stage: one token for the request, or RateLimitError.
RateLimit ==
    /\ InStage("ratelimit", "down")
    /\ LET c == Consume(tokens) IN
        /\ tokens' = c.tokens
        /\ IF c.allowed
           THEN /\ tokens_used' = tokens_used + 1
                /\ depth' = depth + 1
                /\ UNCHANGED <<dir, outcome>>
           ELSE /\ outcome' = Some(Raise("RateLimitError"))
                /\ dir' = "up"
                /\ depth' = depth - 1
                /\ UNCHANGED tokens_used
    /\ stages' = Append(stages, "ratelimit")
    /\ UNCHANGED <<outerVars, req, pipe_pc, inspected, call_next_count, downstream_outcome,
                   final_outcome, attempts, handler_invocations, adapterVars>>

\* The retry stage is entered and makes its first call.
RetryEnter ==
    /\ InStage("retry", "down")
    /\ outcome = None
    /\ attempts' = attempts + 1
    /\ depth' = depth + 1
    /\ stages' = Append(stages, "retry")
    /\ UNCHANGED <<outerVars, tokens, req, pipe_pc, dir, inspected, call_next_count, outcome,
                   downstream_outcome, final_outcome, tokens_used, handler_invocations,
                   adapterVars>>

\* The call the retry stage made has ended: it calls again after one of
\* retry_exceptions while calls are left, and passes anything else on.
RetryBack ==
    /\ InStage("retry", "up")
    /\ IF Raised(Get(outcome)) /\ Get(outcome).kind \in retry_exceptions
          /\ attempts < retry_total
       THEN /\ attempts' = attempts + 1
            /\ outcome' = None
            /\ dir' = "down"
            /\ depth' = depth + 1
       ELSE /\ depth' = depth - 1
            /\ UNCHANGED <<attempts, outcome, dir>>
    /\ UNCHANGED <<outerVars, tokens, req, pipe_pc, inspected, call_next_count,
                   downstream_outcome, final_outcome, stages, tokens_used,
                   handler_invocations, adapterVars>>

AtHandler ==
    /\ pipe_pc = "chain"
    /\ dir = "down"
    /\ depth = Len(Middleware) + 1

Return(o) ==
    /\ outcome' = Some(o)
    /\ dir' = "up"
    /\ depth' = Len(Middleware)
    /\ pipe_pc' = "chain"

\* A tool call reaches the registry. add_two_numbers returns at once; the adapter
\* runs its lines 47-57: to_time is assigned only when to_time_ms is None, and the
\* request object reads it.
DispatchTool ==
    /\ AtHandler
    /\ Get(req).kind = "call"
    /\ LET r == Get(req)
           d == Dispatch(Registry, r.name)
       IN  IF d.kind = "NotFoundError"
           THEN /\ Return(Raise("NotFoundError"))
                /\ UNCHANGED <<handler_invocations, adapterVars>>
           ELSE /\ handler_invocations' = handler_invocations + 1
                /\ CASE r.name = "add_two_numbers" ->
                          /\ Return(Ok(<<add(r.a, r.b)>>))
                          /\ UNCHANGED adapterVars
                     [] r.name = "subtract_two_numbers" ->
                          /\ Return(Ok(<<subtract(r.a, r.b)>>))
                          /\ UNCHANGED adapterVars
                     [] OTHER ->
                          \E now \in TimeValues :
                            LET to_time == IF r.to_time_ms = None THEN Bound(now)
                                           ELSE Unbound
                            IN  /\ api_calls' = 0
                                /\ api_now' = IF to_time.bound THEN Some(now) ELSE None
                                /\ api_error' = None
                                /\ notified' = FALSE
                                /\ IF to_time.bound
                                   THEN /\ api_request' =
                                             Some([to |-> to_time.value,
                                                   windowSize |->
                                                     IF r.duration_ms = None
                                                     THEN duration_ms_default
                                                     ELSE Get(r.duration_ms)])
                                        /\ pipe_pc' = "adapter_call"
                                        /\ UNCHANGED <<outcome, dir, depth>>
                                   ELSE /\ api_request' = None
                                        /\ Return(Raise("UnboundLocalError"))
    /\ stages' = Append(stages, "dispatch")
    /\ UNCHANGED <<outerVars, tokens, req, inspected, call_next_count, downstream_outcome,
                   final_outcome, tokens_used, attempts>>

\* Lines 59-66: the external operation is called and returns or raises.
AdapterCall ==
    /\ pipe_pc = "adapter_call"
    /\ api_calls' = api_calls + 1
    /\ \/ /\ Return(Ok(<<"metrics">>))
          /\ UNCHANGED api_error
       \/ /\ \E e \in ApiErrors : api_error' = Some(e)
          /\ pipe_pc' = "adapter_except"
          /\ UNCHANGED <<outcome, dir, depth>>
    /\ UNCHANGED <<outerVars, tokens, req, inspected, call_next_count, downstream_outcome,
                   final_outcome, stages, tokens_used, attempts, handler_invocations,
                   api_now, api_request, notified>>

\* Lines 68-80: the except block; ctx.error is awaited whatever ctx is.
AdapterExcept ==
    /\ pipe_pc = "adapter_except"
    /\ IF Get(req).ctx = None
       THEN /\ Return(Raise("AttributeError"))
            /\ UNCHANGED notified
       ELSE /\ notified' = TRUE
            /\ Return(ToolError("get_application_data_metrics_v2", Get(api_error).text))
    /\ UNCHANGED <<outerVars, tokens, req, inspected, call_next_count, downstream_outcome,
                   final_outcome, stages, tokens_used, attempts, handler_invocations,
                   api_calls, api_now, api_request, api_error>>

\* A list-tools request reaches the registry.
DispatchList ==
    /\ AtHandler
    /\ Get(req).kind = "list"
    /\ Return(Ok(ListEnabled(Registry)))
    /\ stages' = Append(stages, "dispatch")
    /\ UNCHANGED <<outerVars, tokens, req, inspected, call_next_count, downstream_outcome,
                   final_outcome, tokens_used, attempts, handler_invocations, adapterVars>>

\* Any other message reaches its handler, which returns or raises.
DispatchOther ==
    /\ AtHandler
    /\ Get(req).kind = "other"
    /\ handler_invocations' = handler_invocations + 1
    /\ \E o \in {Ok(<<>>)} \cup {Raise(e.kind) : e \in ApiErrors} : Return(o)
    /\ stages' = Append(stages, "dispatch")
    /\ UNCHANGED <<outerVars, tokens, req, inspected, call_next_count, downstream_outcome,
                   final_outcome, tokens_used, attempts, adapterVars>>

\* The rate-limit stage passes the result up.
RateLimitBack ==
    /\ InStage("ratelimit", "up")
    /\ depth' = depth - 1
    /\ UNCHANGED <<outerVars, tokens, req, pipe_pc, dir, inspected, call_next_count, outcome,
                   downstream_outcome, final_outcome, stages, tokens_used, attempts,
                   handler_invocations, adapterVars>>

\* on_list_tools, lines 106-117: a list-tools result is filtered; anything else, and
\* any exception, passes.
TagFilterPost ==
    /\ InStage("tagfilter", "up")
    /\ outcome' =
          IF Get(req).kind = "list" /\ ~Raised(Get(outcome))
          THEN Some(Ok(on_list_tools(global_tool_categories, Get(outcome).value)))
          ELSE outcome
    /\ depth' = depth - 1
    /\ UNCHANGED <<outerVars, tokens, req, pipe_pc, dir, inspected, call_next_count,
                   downstream_outcome, final_outcome, stages, tokens_used, attempts,
                   handler_invocations, adapterVars>>

\* LoggingMiddleware.on_message, lines 78-94: call_next has ended.
LoggingPost ==
    /\ InStage("logging", "up")
    /\ downstream_outcome' = outcome
    /\ final_outcome' = Some(on_message_result(Get(inspected), Get(outcome)))
    /\ pipe_pc' = "done"
    /\ depth' = 0
    /\ UNCHANGED <<outerVars, tokens, req, dir, inspected, call_next_count, outcome, stages,
                   tokens_used, attempts, handler_invocations, adapterVars>>

\* The answer leaves; the next message may arrive.
Respond ==
    /\ pipe_pc = "done"
    /\ req' = None
    /\ pipe_pc' = "idle"
    /\ depth' = 0
    /\ dir' = "down"
    /\ inspected' = None
    /\ call_next_count' = 0
    /\ outcome' = None
    /\ downstream_outcome' = None
    /\ final_outcome' = None
    /\ stages' = <<>>
    /\ tokens_used' = 0
    /\ attempts' = 0
    /\ handler_invocations' = 0
    /\ api_calls' = 0
    /\ api_now' = None
    /\ api_request' = None
    /\ api_error' = None
    /\ notified' = FALSE
    /\ UNCHANGED <<outerVars, tokens>>

\* Time passes: the bucket refills.
Tick ==
    /\ tokens < burst_capacity
    /\ tokens' = Refill(tokens)
    /\ UNCHANGED <<mainVars, global_tool_categories, listVars, pipeVars, rateVars>>

Next ==
    \/ Receive \/ LoggingPre \/ TagFilterPre \/ RateLimit \/ RetryEnter \/ RetryBack
    \/ DispatchTool \/ AdapterCall \/ AdapterExcept \/ DispatchList \/ DispatchOther
    \/ RateLimitBack \/ TagFilterPost \/ LoggingPost \/ Respond \/ Tick

Init == PipeInit

Spec == Init /\ [][Next]_vars

----------------------------------------------------------------------------
(* The rate limiter under load, watched over one interval *)

\* Longest interval watched, in ticks.
MaxWindowTicks == 20
\* Most rejections counted in one interval.
MaxRejected == 16

RateInit ==
    /\ argv = <<Str("--transport"), Str("streamable-http")>>
    /\ args = [ok |-> TRUE,
               ns |-> [EmptyNamespace(8080) EXCEPT !.transport = Some(Str("streamable-http"))]]
    /\ env = [PORT |-> None, INSTANA_API_TOKEN |-> None, INSTANA_BASE_URL |-> None]
    /\ main_pc = "serving"
    /\ default_port = Some(8080)
    /\ exit_status = None
    /\ help_printed = FALSE
    /\ server_started = TRUE
    /\ server_transport = Some([transport |-> "http", port |-> 8080])
    /\ global_mcp_mode = Some(Str("streamable-http"))
    /\ global_tool_categories = None
    /\ list_response = None
    /\ call_result = None
    /\ tokens = burst_capacity
    /\ retry_total = max_retries
    /\ NoRequest
    /\ NoWindow

rateFrame == <<mainVars, global_tool_categories, listVars, pipeVars>>

\* A request arrives at the rate-limit stage.
Arrive ==
    /\ LET c == Consume(tokens) IN
        /\ tokens' = c.tokens
        /\ last_arrival' = [result |-> IF c.allowed THEN "admitted" ELSE "rejected",
                            before |-> tokens]
        /\ IF ~win_open THEN UNCHANGED <<win_admitted, win_rejected>>
           ELSE IF c.allowed
           THEN /\ win_admitted' = win_admitted + 1
                /\ UNCHANGED win_rejected
           ELSE /\ win_rejected < MaxRejected
                /\ win_rejected' = win_rejected + 1
                /\ UNCHANGED win_admitted
    /\ UNCHANGED <<rateFrame, win_open, win_elapsed>>

\* One tick passes.
RateTick ==
    /\ tokens' = Refill(tokens)
    /\ IF win_open
       THEN /\ win_elapsed < MaxWindowTicks
            /\ win_elapsed' = win_elapsed + 1
       ELSE /\ tokens < burst_capacity
            /\ UNCHANGED win_elapsed
    /\ UNCHANGED <<rateFrame, win_open, win_admitted, win_rejected, last_arrival>>

\* The interval begins, at any moment.
OpenWindow ==
    /\ ~win_open
    /\ win_open' = TRUE
    /\ last_arrival' = [result |-> "none", before |-> 0]
    /\ UNCHANGED <<rateFrame, tokens, win_elapsed, win_admitted, win_rejected>>

RateNext == Arrive \/ RateTick \/ OpenWindow

SpecRate == RateInit /\ [][RateNext]_vars

----------------------------------------------------------------------------
(* Properties of the adapter *)

AdapterName == "list_top_applications_by_performance"

\* An invocation of the adapter has ended and its result or exception is on its way.
AdapterEnded ==
    /\ req # None
    /\ Get(req).name = AdapterName
    /\ handler_invocations > 0
    /\ outcome # None

\* C1: an invocation whose external call raised ends in a ToolError that names
\* get_application_data_metrics_v2 and carries the exception's text, with the error
\* notification sent exactly when a context is present.
C1_ApiFailureIsToolError ==
    (AdapterEnded /\ api_error # None) =>
        /\ Get(outcome).kind = "ToolError"
        /\ Get(outcome).op = "get_application_data_metrics_v2"
        /\ Get(outcome).text = Get(api_error).text
        /\ notified <=> (Get(req).ctx # None)

\* C2: every invocation calls the external operation exactly once, with "to" the
\* to_time_ms given, or the clock when none is given, and "windowSize" the
\* duration_ms given, or 3600000 when none is given.
C2_OneCallWithTheWindow ==
    AdapterEnded =>
        /\ api_calls = 1
        /\ api_request # None
        /\ Some(Get(api_request).to) =
              (IF Get(req).to_time_ms = None THEN api_now ELSE Get(req).to_time_ms)
        /\ Get(api_request).windowSize =
              (IF Get(req).duration_ms = None THEN 3600000 ELSE Get(Get(req).duration_ms))

\* C3: a call of the adapter whose external call failed with a connection or timeout
\* error has been answered only after the retry stage invoked the handler again, as
\* often as the stage allows. Stated for the calls that carry a request context, the
\* ones C1's AttributeError does not touch.
C3_TransientFailureIsRetried ==
    (pipe_pc = "done" /\ AdapterEnded /\ api_error # None /\ Get(req).ctx # None
        /\ Get(api_error).kind \in {"ConnectionError", "TimeoutError"}) =>
        /\ handler_invocations > 1
        /\ handler_invocations = retry_total

----------------------------------------------------------------------------
(* Properties of the pipeline *)

\* C9: LoggingMiddleware.on_message calls call_next exactly once and gives back what
\* call_next gave, result or exception, whatever the inspection of the message and
\* the logging after the call ran into.
C9_LoggingNeverChangesTheOutcome ==
    pipe_pc = "done" =>
        /\ call_next_count = 1
        /\ downstream_outcome # None
        /\ final_outcome = downstream_outcome

C9_Witness ==
    /\ pipe_pc = "done"
    /\ Get(inspected).raised = Some("AttributeError")
    /\ ~Get(inspected).tool_name.bound
    /\ final_outcome = Some(Ok(<<>>))

StageOrder == <<"logging", "tagfilter", "ratelimit", "retry", "dispatch">>

\* C10: a message enters the stages in the order logging, tag filter, rate limit,
\* retry, dispatch (only the dispatch repeats, once per attempt); a message the rate
\* limiter rejected entered neither the retry stage nor a handler; and a message
\* takes one token at most, exactly one once admitted, however many attempts follow.
C10_StagesInOrderOneToken ==
    /\ \A i \in DOMAIN stages : stages[i] = StageOrder[Min(i, Len(StageOrder))]
    /\ (outcome # None /\ Get(outcome).kind = "RateLimitError") =>
          /\ attempts = 0
          /\ handler_invocations = 0
          /\ \A i \in DOMAIN stages : stages[i] \notin {"retry", "dispatch"}
    /\ tokens_used <= 1
    /\ attempts >= 1 => tokens_used = 1

C10_Witness ==
    /\ pipe_pc = "done"
    /\ attempts = retry_total
    /\ handler_invocations = retry_total
    /\ tokens_used = 1
    /\ Get(final_outcome).kind = "TimeoutError"

----------------------------------------------------------------------------
(* Properties of the rate limiter *)

\* C8: in an interval of t seconds at most 20 + 100 t requests are admitted (a tick
\* is TokensPerTick / max_requests_per_second seconds); a request that finds no token
\* is rejected there and then, and no other is; and of 130 requests within less than
\* a second at least 10 are rejected.
C8_BurstPlusRate ==
    /\ win_admitted * max_requests_per_second
          <= 20 * max_requests_per_second + 100 * win_elapsed * TokensPerTick
    /\ last_arrival.result \in {"none", "admitted", "rejected"}
    /\ last_arrival.result = "rejected" => last_arrival.before = 0
    /\ last_arrival.result = "admitted" => last_arrival.before >= 1
    /\ (win_admitted + win_rejected = 130
          /\ win_elapsed * TokensPerTick < max_requests_per_second) =>
          win_rejected >= 10

C8_Witness ==
    /\ win_open
    /\ win_admitted + win_rejected = 130
    /\ win_elapsed * TokensPerTick < max_requests_per_second
    /\ win_rejected >= 10
    /\ last_arrival.result = "rejected"

====
